---- MODULE Spec2Model ----
(***************************************************************************)
(* Model of the streaming event extractor (streamEvents) and of the       *)
(* realtime transport session (useRtc) of the whiteboard example.         *)
(*                                                                         *)
(* A text is a sequence of one-character strings.  A JSON value is a      *)
(* record [k, s, items, fields]: k is the kind ("str", "arr", "obj",      *)
(* "undef"), s the characters of a string, items the elements of an       *)
(* array, fields the properties of an object in insertion order.          *)
(***************************************************************************)
EXTENDS Integers, Sequences, FiniteSets, TLC

(***************************************************************************)
(* Bounds of the input space.                                              *)
(***************************************************************************)
MaxEvents == 2
MaxChunk == 3
MaxPieces == 3
MaxCalls == 2
MaxSockets == 7
MaxMounts == 2
MaxClients == 2
MaxTicks == 3
MaxDeltas == 3
MaxWaits == 3
MaxText == 2
MaxMessages == 2
MaxFrames == 2
MaxRead == 4
MaxStreams == 3
MaxHandlers == 3

(***************************************************************************)
(* JSON values.                                                            *)
(***************************************************************************)
VStr(chars) == [k |-> "str", s |-> chars, items |-> <<>>, fields |-> <<>>]
VArr(xs) == [k |-> "arr", s |-> <<>>, items |-> xs, fields |-> <<>>]
VObj(fs) == [k |-> "obj", s |-> <<>>, items |-> <<>>, fields |-> fs]
VUndef == [k |-> "undef", s |-> <<>>, items |-> <<>>, fields |-> <<>>]

\* acc[key] = value on a JS object: overwrite in place, or append the key.
SetField(fs, key, val) ==
    IF \E j \in 1..Len(fs) : fs[j].key = key
    THEN [j \in 1..Len(fs) |-> IF fs[j].key = key THEN [key |-> key, val |-> val] ELSE fs[j]]
    ELSE Append(fs, [key |-> key, val |-> val])

\* obj[key] on a JS value: undefined unless obj is an object holding key.
GetField(v, key) ==
    IF v.k = "obj" /\ \E j \in 1..Len(v.fields) : v.fields[j].key = key
    THEN v.fields[CHOOSE j \in 1..Len(v.fields) : v.fields[j].key = key].val
    ELSE VUndef

(***************************************************************************)
(* The fault-tolerant parser: parse(accumulatedText).  Positions are       *)
(* 1-based; a result is [val, pos] with pos the first unread position.     *)
(* The texts of the model hold no whitespace and no escape sequences.      *)
(***************************************************************************)
QUOTE == "\""

\* s.indexOf over a set of delimiters, from position i; Len(t)+1 when none.
IndexOfAny(t, i, delims) ==
    IF \E j \in i..Len(t) : t[j] \in delims
    THEN CHOOSE j \in i..Len(t) : t[j] \in delims /\ \A h \in i..(j-1) : t[h] \notin delims
    ELSE Len(t) + 1

\* A quoted string; an open string is closed at the end of the text.
parseString(t, i) ==
    LET close == IndexOfAny(t, i + 1, {QUOTE})
    IN  IF close <= Len(t)
        THEN [val |-> VStr(SubSeq(t, i + 1, close - 1)), pos |-> close + 1]
        ELSE [val |-> VStr(SubSeq(t, i + 1, Len(t))), pos |-> Len(t) + 1]

\* An unquoted run of characters up to the first delimiter.
parseStringWithoutQuote(t, i, delims) ==
    LET stop == IndexOfAny(t, i, delims)
    IN  [val |-> VStr(SubSeq(t, i, stop - 1)), pos |-> stop]

\* An object key: quoted, or unquoted up to ':' or '}'.
parseStringCasual(t, i) ==
    IF t[i] = QUOTE THEN parseString(t, i)
    ELSE parseStringWithoutQuote(t, i, {":", "}"})

RECURSIVE parseAny(_, _, _)
RECURSIVE parseArrayLoop(_, _, _)
RECURSIVE parseObjectLoop(_, _, _)

\* The body of parseArray's loop, from position p with the elements so far.
parseArrayLoop(t, p, acc) ==
    IF p > Len(t) THEN [val |-> VArr(acc), pos |-> p]
    ELSE IF t[p] = "]" THEN [val |-> VArr(acc), pos |-> p + 1]
    ELSE LET res == parseAny(t, p, {",", "]"})
             q == IF res.pos <= Len(t) /\ t[res.pos] = "," THEN res.pos + 1 ELSE res.pos
         IN  parseArrayLoop(t, q, Append(acc, res.val))

\* The body of parseObject's loop, from position p with the fields so far.
parseObjectLoop(t, p, acc) ==
    IF p > Len(t) THEN [val |-> VObj(acc), pos |-> p]
    ELSE IF t[p] = "}" THEN [val |-> VObj(acc), pos |-> p + 1]
    ELSE LET keyRes == parseStringCasual(t, p)
             key == keyRes.val.s
             c == keyRes.pos
         IN  IF c > Len(t) \/ t[c] # ":"
             THEN [val |-> VObj(SetField(acc, key, VUndef)), pos |-> c]
             ELSE IF c + 1 > Len(t)
             THEN [val |-> VObj(SetField(acc, key, VUndef)), pos |-> c + 1]
             ELSE LET res == parseAny(t, c + 1, {})
                      q == IF res.pos <= Len(t) /\ t[res.pos] = "," THEN res.pos + 1 ELSE res.pos
                  IN  parseObjectLoop(t, q, SetField(acc, key, res.val))

\* Dispatch on the first character; fallback is the delimiter set of the
\* unquoted-string parser used when no parser is registered for it.
parseAny(t, i, fallback) ==
    IF t[i] = "[" THEN parseArrayLoop(t, i + 1, <<>>)
    ELSE IF t[i] = "{" THEN parseObjectLoop(t, i + 1, <<>>)
    ELSE IF t[i] = QUOTE THEN parseString(t, i)
    ELSE parseStringWithoutQuote(t, i, fallback)

\* parse(s): '' gives '', anything else the best-effort value.
parse(t) ==
    IF t = <<>> THEN VStr(<<>>) ELSE parseAny(t, 1, {}).val

(***************************************************************************)
(* The event schema: SimpleEvent.parse(part) succeeds on an object whose   *)
(* type is a known action kind and which holds the fields of that kind.    *)
(* Kinds "a" and "b" need no further field; kind "t" needs a string text.  *)
(* Unknown keys are ignored.                                               *)
(***************************************************************************)
EVENTS == <<"e", "v", "e", "n", "t", "s">>
TYPE == <<"t", "y", "p", "e">>
TEXT == <<"t", "e", "x", "t">>

SimpleEvent(part) ==
    /\ part.k = "obj"
    /\ GetField(part, TYPE).k = "str"
    /\ \/ GetField(part, TYPE).s \in {<<"a">>, <<"b">>}
       \/ /\ GetField(part, TYPE).s = <<"t">>
          /\ GetField(part, TEXT).k = "str"

(***************************************************************************)
(* The input texts: what the model streams.                                *)
(***************************************************************************)
Q(chars) == <<QUOTE>> \o chars \o <<QUOTE>>
Member(key, valueText) == Q(key) \o <<":">> \o valueText
Braces(body) == <<"{">> \o body \o <<"}">>

EvA == Braces(Member(TYPE, Q(<<"a">>)))
EvB == Braces(Member(TYPE, Q(<<"b">>)))
EvT == Braces(Member(TYPE, Q(<<"t">>)) \o <<",">> \o Member(TEXT, Q(<<"h", "i">>)))
EvZ == Braces(Member(TYPE, Q(<<"z">>)))
EventTexts == {EvA, EvB, EvT, EvZ}

RECURSIVE Join(_)
Join(texts) ==
    IF texts = <<>> THEN <<>>
    ELSE IF Len(texts) = 1 THEN texts[1]
    ELSE texts[1] \o <<",">> \o Join(Tail(texts))

DocOf(texts) == Braces(Member(EVENTS, <<"[">> \o Join(texts) \o <<"]">>))

EventLists == UNION {[1..n -> EventTexts] : n \in 0..MaxEvents}

\* Responses with two finished events before a third.
LongDocs == {DocOf(<<EvA, EvB, EvA>>), DocOf(<<EvA, EvT, EvB>>)}

\* Well-formed responses, and responses without a usable events array.
Docs ==
    {DocOf(es) : es \in EventLists}
    \cup LongDocs
    \cup {Braces(Member(EVENTS, Q(<<"a">>))),
          Braces(Member(TYPE, Q(<<"a">>))),
          <<"[">> \o EvA \o <<"]">>,
          Q(<<"h", "i">>)}

(***************************************************************************)
(* State of one run of streamEvents.                                       *)
(***************************************************************************)
VARIABLES
    doc,                    \* the text the stream will deliver
    pos,                    \* Len(accumulatedText): characters received so far
    cursor,                 \* cursor
    maybeUnfinishedEvent,   \* maybeUnfinishedEvent, NoEvent for null
    yielded,                \* the yields so far, in order, each with its index
    sawArray,               \* some parse so far had an array at json.events
    pieces,                 \* chunks with content received so far (up to MaxPieces)
    firstCut,               \* Len(accumulatedText) after the first such chunk
    charwise,               \* every such chunk so far held one character
    pc                      \* "feeding", "done" (returned) or "threw"

exVars == <<doc, pos, cursor, maybeUnfinishedEvent, yielded, sawArray,
            pieces, firstCut, charwise, pc>>

(***************************************************************************)
(* State of one useRtc session.  A call of connect is named by a number;   *)
(* the peer connection, data channel and microphone track a call creates   *)
(* carry the number of the call.  0 stands for null.                       *)
(***************************************************************************)
VARIABLES
    isConnected,    \* isConnected
    pcRef,          \* pcRef.current: the call whose peer connection it holds
    dcRef,          \* dcRef.current
    micTrack,       \* micTrack.current
    callPos,        \* where each call of connect stands
    pcState,        \* "none", "open" or "closed" per peer connection
    dcState,        \* "none", "open" or "closed" per data channel
    trackState,     \* "none", "live" or "stopped" per microphone track
    trackOn,        \* the track was added to the peer connection of its call
    lastOp          \* the operation that produced the state: "init",
                    \* "connect", "step", "fail" (a connect threw), "disconnect"

rtcVars == <<isConnected, pcRef, dcRef, micTrack, callPos, pcState, dcState,
             trackState, trackOn, lastOp>>

(***************************************************************************)
(* State of one RealtimeWhiteboard instance.  A WebSocket the component    *)
(* creates is named by a number; 0 stands for null.  The refs outlive a    *)
(* run of the effect: the effect runs again, after its cleanup, whenever   *)
(* the editor prop in its dependency list changes.                         *)
(***************************************************************************)
VARIABLES
    wsRef,              \* ws.current
    sock,               \* per socket: "none" (not created yet), or its
                        \* readyState "connecting", "open", "closed", or
                        \* after the component's close(): "closing" if it
                        \* was open, "aborting" if it was still connecting
    nextSock,           \* the number the next new WebSocket gets
    isConnecting,       \* isConnecting.current
    reconnectAttempts,  \* reconnectAttempts.current
    timerDelay,         \* delay of the pending reconnectTimeout, 0 when none
    timerAfterOpen,     \* that timer was set by the closure of a socket
                        \* that had opened
    initialTimer,       \* initialConnectTimeout is pending
    connectionStatus,   \* connectionStatus
    errorMsg,           \* error
    isGenerating,       \* isGenerating
    mounted,            \* the effect has run and its cleanup has not
    mounts,             \* how many times the effect has run
    dropsSinceOpen,     \* close events with a code other than 1000 since the
                        \* last open event
    gaveUp,             \* the reconnect policy has given up, and no socket
                        \* has opened or been created since
    madeUnmounted,      \* a socket was created after the last cleanup and
                        \* before the effect ran again
    promptSock          \* the socket the prompt being generated was sent
                        \* on, 0 when nothing is being generated

wsVars == <<wsRef, sock, nextSock, isConnecting, reconnectAttempts, timerDelay,
            timerAfterOpen, initialTimer, connectionStatus, errorMsg,
            isGenerating, mounted, mounts, dropsSinceOpen, gaveUp, madeUnmounted,
            promptSock>>

(***************************************************************************)
(* State of RealtimeServer.  A client is one accepted connection.          *)
(***************************************************************************)
VARIABLES
    clients,            \* this.clients
    isAlive,            \* ws.isAlive per client
    conn,               \* per client: "none" (not connected yet), "open",
                        \* "closed" (by the peer), "terminated" (ws.terminate())
    heartbeat,          \* the heartbeat interval is set
    ticks,              \* heartbeat ticks so far
    pingOut,            \* a ping to the client has not been answered yet
    missed,             \* the client was in the set at a tick with the ping
                        \* of the tick before unanswered
    errored,            \* the clients whose socket has emitted 'error'
    down                \* shutdown() has been called

hbVars == <<clients, isAlive, conn, heartbeat, ticks, pingOut, missed, errored,
            down>>

(***************************************************************************)
(* State of one run of the handleRealtimeStream generator that queues      *)
(* transcript deltas.  A delta is named by its arrival number, a promise   *)
(* of the message loop by its creation number; 0 stands for null.          *)
(***************************************************************************)
VARIABLES
    messageQueue,       \* messageQueue
    resolveNext,        \* the promise resolveNext resolves, 0 when null
    awaited,            \* the unsettled promise the generator awaits, else 0
    timers,             \* promises whose setTimeout has not fired yet
    waits,              \* promises created so far
    genPos,             \* "negotiating" (before the loop), "waiting" (at the
                        \* await), "yielded" (the consumer holds a value),
                        \* "closed" (the consumer has returned)
    arrived,            \* the deltas received, in arrival order
    delivered,          \* the deltas yielded, in order
    paths               \* what has happened so far: a delta handed to the
                        \* waiting loop ("waiter"), taken from the queue
                        \* ("queue"), a wait timed out ("timeout"), a delta
                        \* handed to the waiting loop after that
                        \* ("afterTimeout")

qVars == <<messageQueue, resolveNext, awaited, timers, waits, genPos, arrived,
           delivered, paths>>

(***************************************************************************)
(* Calls of asMessage.  A message input is a record: a string ("str", its  *)
(* characters in s), a text message ("text", its text in s), an image      *)
(* message ("image", its src in s) or an array ("arr", its messages in     *)
(* items); ref tells one array object from another.                        *)
(***************************************************************************)
VARIABLES
    amIn,               \* the argument of the first call
    amOut,              \* its result
    amAgain,            \* the result of asMessage(amOut)
    nextRef             \* the ref the next new array gets

amVars == <<amIn, amOut, amAgain, nextRef>>

(***************************************************************************)
(* State of one run of handleShapeCreation reading the model's event       *)
(* stream.                                                                 *)
(***************************************************************************)
VARIABLES
    sseDoc,             \* the bytes of the response body, as characters
    ssePos,             \* how many of them reader.read() has delivered
    sseOut              \* the changes sent to the client, in order

sseVars == <<sseDoc, ssePos, sseOut>>

(***************************************************************************)
(* State of the module around handleRealtimeStream: its module-level       *)
(* variables and the calls of the generator.                               *)
(***************************************************************************)
VARIABLES
    currentPeerConnection,  \* the call whose peer connection it holds, 0 for null
    currentDataChannel,     \* the call whose data channel it holds, 0 for null
    micStream,              \* micStream and micTrack are set
    micEnabled,             \* micTrack.enabled
    streamAt,               \* per call: "idle" (not called yet), the await it
                            \* stands at, "returned" or "failed" (it threw)
    channel,                \* per call: readyState of its data channel, "none"
                            \* before createDataChannel
    peer                    \* per call: "none", "open" or "closed" peer connection

rsVars == <<currentPeerConnection, currentDataChannel, micStream, micEnabled,
            streamAt, channel, peer>>

(***************************************************************************)
(* The configurations createModelHandler has returned.                     *)
(***************************************************************************)
VARIABLES
    made                \* per call, in order: the model asked for and the
                        \* configuration returned

mhVars == <<made>>

coreVars == <<exVars, rtcVars, wsVars, hbVars>>

vars == <<coreVars, qVars, amVars, sseVars, rsVars, mhVars>>

\* What an action of one component leaves alone in the others.
notExVars == <<rtcVars, wsVars, hbVars, qVars, amVars, sseVars, rsVars, mhVars>>
notRtcVars == <<exVars, wsVars, hbVars, qVars, amVars, sseVars, rsVars, mhVars>>
notWsVars == <<exVars, rtcVars, hbVars, qVars, amVars, sseVars, rsVars, mhVars>>
notHbVars == <<exVars, rtcVars, wsVars, qVars, amVars, sseVars, rsVars, mhVars>>
notQVars == <<coreVars, amVars, sseVars, rsVars, mhVars>>
notAmVars == <<coreVars, qVars, sseVars, rsVars, mhVars>>
notSseVars == <<coreVars, qVars, amVars, rsVars, mhVars>>
notRsVars == <<coreVars, qVars, amVars, sseVars, mhVars>>
notMhVars == <<coreVars, qVars, amVars, sseVars, rsVars>>

NoEvent == [k |-> "null", s |-> <<>>, items |-> <<>>, fields |-> <<>>]

accumulatedText == SubSeq(doc, 1, pos)

\* json?.events of the parse of a text
EventsOf(t) == GetField(parse(t), EVENTS)

\* Array.isArray(json?.events)
IsEventArray(v) == v.k = "arr"

\* LoopBody with the yield kept and "cursor++" lost.
LoopBody_NoAdvance(items, i, len, st) ==
    LET part == items[i + 1]
    IN  IF i = st.cursor /\ SimpleEvent(part)
        THEN [st EXCEPT !.pending = NoEvent,
                        !.out = Append(st.out, [part |-> part, i |-> i,
                                                last |-> (i = len - 1), by |-> "feed"])]
        ELSE st

\* LoopBody whose catch block steps over the invalid element.
LoopBody_SkipInvalid(items, i, len, st) ==
    LET part == items[i + 1]
    IN  IF i = st.cursor
        THEN IF SimpleEvent(part)
             THEN [st EXCEPT !.cursor = st.cursor + 1,
                             !.pending = NoEvent,
                             !.out = Append(st.out, [part |-> part, i |-> i,
                                                     last |-> (i = len - 1), by |-> "feed"])]
             ELSE [st EXCEPT !.cursor = st.cursor + 1]
        ELSE st

\* One pass of the body of "for (let i = cursor, len = ...; i < len; i++)";
\* st carries cursor, maybeUnfinishedEvent, the yields of this call and
\* whether an exception has left the loop.  SimpleEvent.parse throws on an
\* invalid part and the catch block swallows it.
LoopBody(items, i, len, st) ==
    LET part == items[i + 1]
    IN  IF i = st.cursor
        THEN IF SimpleEvent(part)
             THEN IF i < len
                  THEN [st EXCEPT !.cursor = st.cursor + 1,
                                  !.pending = NoEvent,
                                  !.out = Append(st.out, [part |-> part, i |-> i,
                                                          last |-> (i = len - 1),
                                                          by |-> "feed"])]
                  ELSE [st EXCEPT !.pending = part]
             ELSE st
        ELSE st

\* A loop that ends after its first pass.
EventLoop_OnePass(items, i, len, st) ==
    IF i < len /\ ~st.threw THEN LoopBody(items, i, len, st) ELSE st

RECURSIVE EventLoop(_, _, _, _)
EventLoop(items, i, len, st) ==
    IF i < len /\ ~st.threw
    THEN EventLoop(items, i + 1, len, LoopBody(items, i, len, st))
    ELSE st

\* ProcessChunk that also takes a bare top-level array for the events.
ProcessChunk_BareArray(t, st) ==
    LET evs == IF parse(t).k = "arr" THEN parse(t) ELSE EventsOf(t)
    IN  IF IsEventArray(evs)
        THEN EventLoop(evs.items, st.cursor, Len(evs.items), st)
        ELSE st

\* The body of "for await (const chunk of stream)" on the text t accumulated
\* after the chunk, from the extractor state st.
ProcessChunk(t, st) ==
    LET evs == EventsOf(t)
    IN  IF IsEventArray(evs)
        THEN EventLoop(evs.items, st.cursor, Len(evs.items), st)
        ELSE st

\* The tail of streamEvents after the stream has ended; the pending event
\* was stored at index cursor.
FinishYield(pending, c) ==
    IF pending # NoEvent
    THEN <<[part |-> pending, i |-> c, last |-> TRUE, by |-> "finish"]>>
    ELSE <<>>

InitSt == [cursor |-> 0, pending |-> NoEvent, out |-> <<>>, threw |-> FALSE]

Calls == 1..MaxCalls

\* useRtc after its first render: nothing connected, no call made.
RtcInit ==
    /\ isConnected = FALSE
    /\ pcRef = 0
    /\ dcRef = 0
    /\ micTrack = 0
    /\ callPos = [c \in Calls |-> "idle"]
    /\ pcState = [c \in Calls |-> "none"]
    /\ dcState = [c \in Calls |-> "none"]
    /\ trackState = [c \in Calls |-> "none"]
    /\ trackOn = [c \in Calls |-> FALSE]
    /\ lastOp = "init"

Sockets == 1..MaxSockets

\* The component has mounted: the effect has set initialConnectTimeout.
WsInit ==
    /\ wsRef = 0
    /\ sock = [s \in Sockets |-> "none"]
    /\ nextSock = 1
    /\ isConnecting = FALSE
    /\ reconnectAttempts = 0
    /\ timerDelay = 0
    /\ timerAfterOpen = FALSE
    /\ initialTimer = TRUE
    /\ connectionStatus = "disconnected"
    /\ errorMsg = "null"
    /\ isGenerating = FALSE
    /\ mounted = TRUE
    /\ mounts = 1
    /\ dropsSinceOpen = 0
    /\ gaveUp = FALSE
    /\ madeUnmounted = FALSE
    /\ promptSock = 0

Clients == 1..MaxClients

\* The constructor has run: no client yet, heartbeat started.
HbInit ==
    /\ clients = {}
    /\ isAlive = [c \in Clients |-> FALSE]
    /\ conn = [c \in Clients |-> "none"]
    /\ heartbeat = TRUE
    /\ ticks = 0
    /\ pingOut = [c \in Clients |-> FALSE]
    /\ missed = [c \in Clients |-> FALSE]
    /\ errored = {}
    /\ down = FALSE

\* The generator has been started; the data channel exists.
QInit ==
    /\ messageQueue = <<>>
    /\ resolveNext = 0
    /\ awaited = 0
    /\ timers = {}
    /\ waits = 0
    /\ genPos = "negotiating"
    /\ arrived = <<>>
    /\ delivered = <<>>
    /\ paths = {}

NoMessage == [k |-> "none", s |-> <<>>, ref |-> 0, items |-> <<>>]

\* asMessage has not been called.
AmInit ==
    /\ amIn = NoMessage
    /\ amOut = NoMessage
    /\ amAgain = NoMessage
    /\ nextRef = 2

\* createModelHandler has not been called.
MhInit == made = <<>>

Streams == 1..MaxStreams

\* The module is loaded and handleRealtimeStream has not been called.
RsInit ==
    /\ currentPeerConnection = 0
    /\ currentDataChannel = 0
    /\ micStream = FALSE
    /\ micEnabled = FALSE
    /\ streamAt = [i \in Streams |-> "idle"]
    /\ channel = [i \in Streams |-> "none"]
    /\ peer = [i \in Streams |-> "none"]

\* Nothing has been read from the response body.
SseStart ==
    /\ ssePos = 0
    /\ sseOut = <<>>

\* The components added after the first four, before anything has happened;
\* the response body is left open.
RestInit == QInit /\ AmInit /\ SseStart /\ RsInit /\ MhInit

ExInit ==
    /\ RtcInit
    /\ WsInit
    /\ HbInit
    /\ RestInit
    /\ sseDoc = <<>>
    /\ doc \in Docs
    /\ pos = 0
    /\ cursor = 0
    /\ maybeUnfinishedEvent = NoEvent
    /\ yielded = <<>>
    /\ sawArray = FALSE
    /\ pieces = 0
    /\ firstCut = 0
    /\ charwise = TRUE
    /\ pc = "feeding"

\* The stream delivers a chunk of n characters (n = 0: a chunk without content).
Feed(n) ==
    /\ pc = "feeding"
    /\ pos + n <= Len(doc)
    /\ LET t == SubSeq(doc, 1, pos + n)
           st == ProcessChunk(t, [cursor |-> cursor, pending |-> maybeUnfinishedEvent,
                                  out |-> <<>>, threw |-> FALSE])
       IN  /\ cursor' = st.cursor
           /\ maybeUnfinishedEvent' = st.pending
           /\ yielded' = yielded \o st.out
           /\ sawArray' = (sawArray \/ GetField(parse(t), EVENTS).k = "arr")
           /\ pc' = IF st.threw THEN "threw" ELSE pc
    /\ pos' = pos + n
    /\ pieces' = IF n > 0 /\ pieces < MaxPieces THEN pieces + 1 ELSE pieces
    /\ firstCut' = IF n > 0 /\ pieces = 0 THEN pos + n ELSE firstCut
    /\ charwise' = (charwise /\ n <= 1)
    /\ UNCHANGED <<doc, notExVars>>

\* The stream ends: the pending event, if any, is yielded.
Finish ==
    /\ pc = "feeding"
    /\ yielded' = yielded \o FinishYield(maybeUnfinishedEvent, cursor)
    /\ pc' = "done"
    /\ UNCHANGED <<doc, pos, cursor, maybeUnfinishedEvent, sawArray,
                   pieces, firstCut, charwise, notExVars>>

ChunkSizes == (0..MaxChunk) \cup {Len(doc) - pos}

ExNext ==
    \/ \E n \in ChunkSizes : Feed(n)
    \/ Finish

ExSpec == ExInit /\ [][ExNext]_vars

\* The same extractor on a stream that arrives in exactly two pieces, cut
\* anywhere: a first piece of any length, then the rest, then the end.
FeedFirstPiece ==
    /\ pieces = 0
    /\ \E n \in 1..(Len(doc) - 1) : Feed(n)

FeedRest ==
    /\ pieces = 1
    /\ Len(doc) - pos > 0
    /\ Feed(Len(doc) - pos)

FinishTwoPieces ==
    /\ pieces = 2
    /\ Finish

TwoPieceNext == FeedFirstPiece \/ FeedRest \/ FinishTwoPieces

TwoPieceSpec == ExInit /\ [][TwoPieceNext]_vars

(***************************************************************************)
(* The realtime transport session: useRtc.                                 *)
(***************************************************************************)

\* cleanup(): close dcRef, stop the tracks of the senders of pcRef, close
\* pcRef (which closes its data channel), null the refs, setConn(false).
\* The result is the record of the fields it writes.
Cleanup ==
    [dcState |-> [c \in Calls |->
                    IF (c = dcRef \/ c = pcRef) /\ dcState[c] = "open"
                    THEN "closed" ELSE dcState[c]],
     trackState |-> [c \in Calls |->
                    IF c = pcRef /\ pcState[c] = "open" /\ trackOn[c] /\ trackState[c] = "live"
                    THEN "stopped" ELSE trackState[c]],
     pcState |-> [c \in Calls |->
                    IF c = pcRef /\ pcState[c] = "open" THEN "closed" ELSE pcState[c]]]

\* The catch block of connect: cleanup() and rethrow.
Fails(c) ==
    /\ dcState' = Cleanup.dcState
    /\ trackState' = Cleanup.trackState
    /\ pcState' = Cleanup.pcState
    /\ pcRef' = 0
    /\ dcRef' = 0
    /\ isConnected' = FALSE
    /\ callPos' = [callPos EXCEPT ![c] = "failed"]

\* connect without the isConnected check.
Connect_NoGuard(c) ==
    /\ callPos[c] = "idle"
    /\ \A d \in Calls : d < c => callPos[d] # "idle"
    /\ callPos' = [callPos EXCEPT ![c] = "awaitSession"]
    /\ lastOp' = "connect"
    /\ UNCHANGED <<isConnected, pcRef, dcRef, micTrack, pcState, dcState,
                   trackState, trackOn, notRtcVars>>

\* connect(voice, modelId): returns at once when isConnected, otherwise
\* starts fetching the session secret.
Connect(c) ==
    /\ callPos[c] = "idle"
    /\ \A d \in Calls : d < c => callPos[d] # "idle"
    /\ callPos' = [callPos EXCEPT ![c] = IF isConnected THEN "returned" ELSE "awaitSession"]
    /\ lastOp' = "connect"
    /\ UNCHANGED <<isConnected, pcRef, dcRef, micTrack, pcState, dcState,
                   trackState, trackOn, notRtcVars>>

\* The session secret arrives: new RTCPeerConnection, pcRef.current = pc,
\* then getUserMedia is awaited.
SessionOk(c) ==
    /\ callPos[c] = "awaitSession"
    /\ pcState' = [pcState EXCEPT ![c] = "open"]
    /\ pcRef' = c
    /\ callPos' = [callPos EXCEPT ![c] = "awaitMic"]
    /\ lastOp' = "step"
    /\ UNCHANGED <<isConnected, dcRef, micTrack, dcState, trackState, trackOn, notRtcVars>>

\* The session fetch fails or carries no key.
SessionFail(c) ==
    /\ callPos[c] = "awaitSession"
    /\ Fails(c)
    /\ micTrack' = 0
    /\ lastOp' = "fail"
    /\ UNCHANGED <<trackOn, notRtcVars>>

\* getUserMedia resolves: micTrack.current = track, pc.addTrack (which
\* throws on a closed peer connection), createDataChannel, dcRef.current =
\* dc, then the offer/answer exchange is awaited.
MicOk(c) ==
    /\ callPos[c] = "awaitMic"
    /\ lastOp' = IF pcState[c] = "open" THEN "step" ELSE "fail"
    /\ IF pcState[c] = "open"
       THEN /\ trackState' = [trackState EXCEPT ![c] = "live"]
            /\ trackOn' = [trackOn EXCEPT ![c] = TRUE]
            /\ micTrack' = c
            /\ dcState' = [dcState EXCEPT ![c] = "open"]
            /\ dcRef' = c
            /\ callPos' = [callPos EXCEPT ![c] = "awaitSdp"]
            /\ UNCHANGED <<isConnected, pcRef, pcState>>
       ELSE /\ dcState' = Cleanup.dcState
            /\ trackState' = [Cleanup.trackState EXCEPT ![c] = "live"]
            /\ pcState' = Cleanup.pcState
            /\ pcRef' = 0
            /\ dcRef' = 0
            /\ micTrack' = 0
            /\ isConnected' = FALSE
            /\ callPos' = [callPos EXCEPT ![c] = "failed"]
            /\ UNCHANGED trackOn
    /\ UNCHANGED notRtcVars

\* getUserMedia rejects.
MicFail(c) ==
    /\ callPos[c] = "awaitMic"
    /\ Fails(c)
    /\ micTrack' = 0
    /\ lastOp' = "fail"
    /\ UNCHANGED <<trackOn, notRtcVars>>

\* createOffer, setLocalDescription, the answer and setRemoteDescription
\* succeed: setConn(true).
SdpOk(c) ==
    /\ callPos[c] = "awaitSdp"
    /\ pcState[c] = "open"
    /\ isConnected' = TRUE
    /\ callPos' = [callPos EXCEPT ![c] = "connected"]
    /\ lastOp' = "step"
    /\ UNCHANGED <<pcRef, dcRef, micTrack, pcState, dcState, trackState, trackOn, notRtcVars>>

\* One of them rejects (as each does on a closed peer connection).
SdpFail(c) ==
    /\ callPos[c] = "awaitSdp"
    /\ Fails(c)
    /\ micTrack' = 0
    /\ lastOp' = "fail"
    /\ UNCHANGED <<trackOn, notRtcVars>>

\* disconnect(): if (isConnected) cleanup().
Disconnect ==
    /\ lastOp # "disconnect"
    /\ lastOp' = "disconnect"
    /\ IF isConnected
       THEN /\ dcState' = Cleanup.dcState
            /\ trackState' = Cleanup.trackState
            /\ pcState' = Cleanup.pcState
            /\ pcRef' = 0
            /\ dcRef' = 0
            /\ micTrack' = 0
            /\ isConnected' = FALSE
       ELSE UNCHANGED <<dcState, trackState, pcState, pcRef, dcRef, micTrack, isConnected>>
    /\ UNCHANGED <<callPos, trackOn, notRtcVars>>

RtcNext ==
    \/ \E c \in Calls : Connect(c)
    \/ \E c \in Calls : SessionOk(c)
    \/ \E c \in Calls : SessionFail(c)
    \/ \E c \in Calls : MicOk(c)
    \/ \E c \in Calls : MicFail(c)
    \/ \E c \in Calls : SdpOk(c)
    \/ \E c \in Calls : SdpFail(c)
    \/ Disconnect

\* The extractor is idle.
ExIdle ==
    /\ doc = <<>>
    /\ pos = 0
    /\ cursor = 0
    /\ maybeUnfinishedEvent = NoEvent
    /\ yielded = <<>>
    /\ sawArray = FALSE
    /\ pieces = 0
    /\ firstCut = 0
    /\ charwise = TRUE
    /\ pc = "feeding"

\* Nothing has happened in any component.
AllIdle ==
    /\ RtcInit
    /\ WsInit
    /\ HbInit
    /\ ExIdle
    /\ RestInit
    /\ sseDoc = <<>>

RtcSpecInit == AllIdle

RtcSpec == RtcSpecInit /\ [][RtcNext]_vars

(***************************************************************************)
(* RealtimeWhiteboard: the WebSocket client with automatic reconnection.   *)
(***************************************************************************)
maxReconnectAttempts == 5
BaseDelay == 1000
MaxDelay == 10000
NormalClosure == 1000
AbnormalClosure == 1006

Min(a, b) == IF a < b THEN a ELSE b

\* Math.min(1000 * Math.pow(2, reconnectAttempts.current), 10000)
ReconnectDelay(k) == Min(BaseDelay * 2 ^ k, MaxDelay)

\* connectWebSocket gets past its early returns and calls new WebSocket.
CreatesSocket ==
    /\ ~isConnecting
    /\ wsRef = 0 \/ sock[wsRef] \notin {"connecting", "open"}

\* connectWebSocket()
ConnectWebSocket ==
    IF CreatesSocket
    THEN /\ nextSock <= MaxSockets
         /\ isConnecting' = TRUE
         /\ connectionStatus' = "connecting"
         /\ errorMsg' = "null"
         /\ sock' = [sock EXCEPT ![nextSock] = "connecting"]
         /\ wsRef' = nextSock
         /\ nextSock' = nextSock + 1
         /\ madeUnmounted' = (madeUnmounted \/ ~mounted)
         /\ gaveUp' = FALSE
    ELSE UNCHANGED <<isConnecting, connectionStatus, errorMsg, sock, wsRef,
                     nextSock, madeUnmounted, gaveUp>>

\* The timer the effect set fires.
InitialTimerFires ==
    /\ initialTimer
    /\ initialTimer' = FALSE
    /\ ConnectWebSocket
    /\ UNCHANGED <<reconnectAttempts, timerDelay, timerAfterOpen, isGenerating,
                   mounted, mounts, dropsSinceOpen, promptSock, notWsVars>>

\* The timer set by onclose fires.
ReconnectTimerFires ==
    /\ timerDelay # 0
    /\ timerDelay' = 0
    /\ reconnectAttempts' = reconnectAttempts + 1
    /\ ConnectWebSocket
    /\ UNCHANGED <<timerAfterOpen, initialTimer, isGenerating, mounted, mounts,
                   dropsSinceOpen, promptSock, notWsVars>>

\* socket.onopen
SocketOpens(s) ==
    /\ sock[s] = "connecting"
    /\ sock' = [sock EXCEPT ![s] = "open"]
    /\ connectionStatus' = "connected"
    /\ errorMsg' = "null"
    /\ reconnectAttempts' = 0
    /\ isConnecting' = FALSE
    /\ dropsSinceOpen' = 0
    /\ gaveUp' = FALSE
    /\ UNCHANGED <<wsRef, nextSock, timerDelay, timerAfterOpen, initialTimer,
                   isGenerating, mounted, mounts, madeUnmounted, promptSock, notWsVars>>

\* onclose that allows one attempt more than maxReconnectAttempts.
OnClose_OneMore(s, code, opened) ==
    /\ sock' = [sock EXCEPT ![s] = "closed"]
    /\ connectionStatus' = "disconnected"
    /\ wsRef' = 0
    /\ isConnecting' = FALSE
    /\ dropsSinceOpen' = IF code = NormalClosure THEN dropsSinceOpen
                                                 ELSE dropsSinceOpen + 1
    /\ IF code = NormalClosure
       THEN UNCHANGED <<errorMsg, timerDelay, timerAfterOpen, gaveUp>>
       ELSE IF reconnectAttempts <= maxReconnectAttempts
            THEN /\ errorMsg' = "reconnecting"
                 /\ timerDelay' = ReconnectDelay(reconnectAttempts)
                 /\ timerAfterOpen' = opened
                 /\ UNCHANGED gaveUp
            ELSE /\ errorMsg' = "terminal"
                 /\ gaveUp' = TRUE
                 /\ UNCHANGED <<timerDelay, timerAfterOpen>>
    /\ UNCHANGED <<nextSock, reconnectAttempts, initialTimer, isGenerating,
                   mounted, mounts, madeUnmounted, promptSock, notWsVars>>

\* socket.onclose for a close event with the given code, of a socket that
\* had opened or not (the error event that precedes an abnormal closure
\* sets only what onclose sets again).
OnClose(s, code, opened) ==
    /\ sock' = [sock EXCEPT ![s] = "closed"]
    /\ connectionStatus' = "disconnected"
    /\ wsRef' = 0
    /\ isConnecting' = FALSE
    /\ dropsSinceOpen' = IF code = NormalClosure THEN dropsSinceOpen
                                                 ELSE dropsSinceOpen + 1
    /\ IF code = NormalClosure
       THEN UNCHANGED <<errorMsg, timerDelay, timerAfterOpen, gaveUp>>
       ELSE IF reconnectAttempts < maxReconnectAttempts
            THEN /\ errorMsg' = "reconnecting"
                 /\ timerDelay' = ReconnectDelay(reconnectAttempts)
                 /\ timerAfterOpen' = opened
                 /\ UNCHANGED gaveUp
            ELSE /\ errorMsg' = "terminal"
                 /\ gaveUp' = TRUE
                 /\ UNCHANGED <<timerDelay, timerAfterOpen>>
    /\ UNCHANGED <<nextSock, reconnectAttempts, initialTimer, isGenerating,
                   mounted, mounts, madeUnmounted, promptSock, notWsVars>>

\* The connection attempt fails: error event, then close event.
SocketFails(s) ==
    /\ sock[s] = "connecting"
    /\ OnClose(s, AbnormalClosure, FALSE)

\* The server or the network ends an open connection.
SocketDrops(s, code) ==
    /\ sock[s] = "open"
    /\ OnClose(s, code, TRUE)

\* A socket the component has closed finishes closing: with the code passed
\* to close() if it was open, as a failed connection if it was connecting.
CloseCompletes(s) ==
    \/ /\ sock[s] = "closing"
       /\ OnClose(s, NormalClosure, TRUE)
    \/ /\ sock[s] = "aborting"
       /\ OnClose(s, AbnormalClosure, FALSE)

\* The effect cleanup.
Unmount ==
    /\ mounted
    /\ mounted' = FALSE
    /\ initialTimer' = FALSE
    /\ timerDelay' = 0
    /\ sock' = IF wsRef = 0 THEN sock
               ELSE [sock EXCEPT ![wsRef] = CASE @ = "open" -> "closing"
                                              [] @ = "connecting" -> "aborting"
                                              [] OTHER -> @]
    /\ wsRef' = 0
    /\ isConnecting' = FALSE
    /\ madeUnmounted' = FALSE
    /\ UNCHANGED <<nextSock, reconnectAttempts, timerAfterOpen, connectionStatus,
                   errorMsg, isGenerating, mounts, dropsSinceOpen, gaveUp,
                   promptSock, notWsVars>>

\* The effect runs again after its cleanup.
Mount ==
    /\ ~mounted
    /\ mounts < MaxMounts
    /\ mounted' = TRUE
    /\ mounts' = mounts + 1
    /\ initialTimer' = TRUE
    /\ madeUnmounted' = FALSE
    /\ UNCHANGED <<wsRef, sock, nextSock, isConnecting, reconnectAttempts,
                   timerDelay, timerAfterOpen, connectionStatus, errorMsg,
                   isGenerating, dropsSinceOpen, gaveUp, promptSock, notWsVars>>

MessageKinds == {"change", "end", "error", "unknown", "malformed"}

\* onmessage that gives up the socket on a message it cannot handle.
OnMessage_CloseOnBad(s, m) ==
    /\ sock[s] = "open"
    /\ isGenerating' = IF m \in {"end", "error"} THEN FALSE ELSE isGenerating
    /\ promptSock' = IF m \in {"end", "error"} THEN 0 ELSE promptSock
    /\ errorMsg' = CASE m = "error" -> "server"
                     [] m = "malformed" -> "processing"
                     [] OTHER -> errorMsg
    /\ sock' = IF m \in {"unknown", "malformed"} THEN [sock EXCEPT ![s] = "closing"]
                                                  ELSE sock
    /\ UNCHANGED <<wsRef, nextSock, isConnecting, reconnectAttempts,
                   timerDelay, timerAfterOpen, initialTimer, connectionStatus,
                   mounted, mounts, dropsSinceOpen, gaveUp, madeUnmounted,
                   notWsVars>>

\* socket.onmessage
OnMessage(s, m) ==
    /\ sock[s] = "open"
    /\ isGenerating' = IF m \in {"end", "error"} THEN FALSE ELSE isGenerating
    /\ promptSock' = IF m \in {"end", "error"} THEN 0 ELSE promptSock
    /\ errorMsg' = CASE m = "error" -> "server"
                     [] m = "malformed" -> "processing"
                     [] OTHER -> errorMsg
    /\ UNCHANGED <<wsRef, sock, nextSock, isConnecting, reconnectAttempts,
                   timerDelay, timerAfterOpen, initialTimer, connectionStatus,
                   mounted, mounts, dropsSinceOpen, gaveUp, madeUnmounted,
                   notWsVars>>

\* handleSubmit with a non-empty prompt; the form is enabled only while
\* connectionStatus is 'connected' and nothing is being generated.
HandleSubmit ==
    /\ mounted
    /\ connectionStatus = "connected"
    /\ ~isGenerating
    /\ IF wsRef # 0 /\ sock[wsRef] = "open"
       THEN /\ isGenerating' = TRUE
            /\ promptSock' = wsRef
            /\ errorMsg' = "null"
       ELSE /\ errorMsg' = "notConnected"
            /\ UNCHANGED <<isGenerating, promptSock>>
    /\ UNCHANGED <<wsRef, sock, nextSock, isConnecting, reconnectAttempts,
                   timerDelay, timerAfterOpen, initialTimer, connectionStatus,
                   mounted, mounts, dropsSinceOpen, gaveUp, madeUnmounted,
                   notWsVars>>

WsNext ==
    \/ InitialTimerFires
    \/ ReconnectTimerFires
    \/ \E s \in Sockets : SocketOpens(s)
    \/ \E s \in Sockets : SocketFails(s)
    \/ \E s \in Sockets : \E code \in {NormalClosure, AbnormalClosure} : SocketDrops(s, code)
    \/ \E s \in Sockets : CloseCompletes(s)
    \/ Unmount
    \/ Mount
    \/ \E s \in Sockets : \E m \in MessageKinds : OnMessage(s, m)
    \/ HandleSubmit

WsSpecInit == AllIdle

WsSpec == WsSpecInit /\ [][WsNext]_vars

(***************************************************************************)
(* RealtimeServer: the client set and the heartbeat.                       *)
(***************************************************************************)

\* wss.on('connection')
Accept(c) ==
    /\ conn[c] = "none"
    /\ conn' = [conn EXCEPT ![c] = "open"]
    /\ isAlive' = [isAlive EXCEPT ![c] = TRUE]
    /\ clients' = clients \cup {c}
    /\ UNCHANGED <<heartbeat, ticks, pingOut, missed, errored, down, notHbVars>>

\* ws.on('pong'): the client answers the ping it was sent.
Pong(c) ==
    /\ conn[c] = "open"
    /\ pingOut[c]
    /\ pingOut' = [pingOut EXCEPT ![c] = FALSE]
    /\ isAlive' = [isAlive EXCEPT ![c] = TRUE]
    /\ UNCHANGED <<clients, conn, heartbeat, ticks, missed, errored, down, notHbVars>>

\* ws.on('error')
ClientError(c) ==
    /\ conn[c] = "open"
    /\ c \in clients
    /\ clients' = clients \ {c}
    /\ errored' = errored \cup {c}
    /\ UNCHANGED <<isAlive, conn, heartbeat, ticks, pingOut, missed, down, notHbVars>>

\* ws.on('close'): the peer has closed the connection.
ClientClose(c) ==
    /\ conn[c] = "open"
    /\ conn' = [conn EXCEPT ![c] = "closed"]
    /\ clients' = clients \ {c}
    /\ pingOut' = [pingOut EXCEPT ![c] = FALSE]
    /\ UNCHANGED <<isAlive, heartbeat, ticks, missed, errored, down, notHbVars>>

\* The clients a heartbeat tick terminates.
Lost == {c \in clients : ~isAlive[c]}

\* A tick that does not clear isAlive before it pings.
Tick_KeepAlive ==
    /\ heartbeat
    /\ ticks < MaxTicks
    /\ ticks' = ticks + 1
    /\ clients' = clients \ Lost
    /\ conn' = [c \in Clients |-> IF c \in Lost THEN "terminated" ELSE conn[c]]
    /\ isAlive' = isAlive
    /\ pingOut' = [c \in Clients |-> IF c \in Lost THEN FALSE
                                     ELSE IF c \in clients THEN TRUE ELSE pingOut[c]]
    /\ missed' = [c \in Clients |-> missed[c] \/ (c \in clients /\ pingOut[c])]
    /\ UNCHANGED <<heartbeat, errored, down, notHbVars>>

\* One run of the setInterval callback of startHeartbeat.
Tick ==
    /\ heartbeat
    /\ ticks < MaxTicks
    /\ ticks' = ticks + 1
    /\ clients' = clients \ Lost
    /\ conn' = [c \in Clients |-> IF c \in Lost THEN "terminated" ELSE conn[c]]
    /\ isAlive' = [c \in Clients |-> IF c \in clients \ Lost THEN FALSE ELSE isAlive[c]]
    /\ pingOut' = [c \in Clients |-> IF c \in Lost THEN FALSE
                                     ELSE IF c \in clients THEN TRUE ELSE pingOut[c]]
    /\ missed' = [c \in Clients |-> missed[c] \/ (c \in clients /\ pingOut[c])]
    /\ UNCHANGED <<heartbeat, errored, down, notHbVars>>

\* shutdown() that leaves the heartbeat interval running.
Shutdown_KeepInterval ==
    /\ ~down
    /\ down' = TRUE
    /\ UNCHANGED <<clients, isAlive, conn, heartbeat, ticks, pingOut, missed, errored,
                   notHbVars>>

\* shutdown()
Shutdown ==
    /\ ~down
    /\ down' = TRUE
    /\ heartbeat' = FALSE
    /\ UNCHANGED <<clients, isAlive, conn, ticks, pingOut, missed, errored, notHbVars>>

HbNext ==
    \/ \E c \in Clients : Accept(c)
    \/ \E c \in Clients : Pong(c)
    \/ \E c \in Clients : ClientError(c)
    \/ \E c \in Clients : ClientClose(c)
    \/ Tick
    \/ Shutdown

HbSpecInit == AllIdle

HbSpec == HbSpecInit /\ [][HbNext]_vars

(***************************************************************************)
(* handleRealtimeStream with the message queue: the hand-off between       *)
(* dc.onmessage and the message loop.  A callback runs to completion, and  *)
(* the continuation of an await runs before the next event is handled, so  *)
(* resolving the awaited promise and the code up to the next yield or      *)
(* await are one step.                                                     *)
(***************************************************************************)

\* The loop from its head to the next yield or await; tm are the timers
\* pending when it starts, timedOut says that a wait has just timed out.
LoopStep(tm, timedOut) ==
    IF messageQueue # <<>>
    THEN /\ delivered' = Append(delivered, Head(messageQueue))
         /\ messageQueue' = Tail(messageQueue)
         /\ genPos' = "yielded"
         /\ awaited' = 0
         /\ timers' = tm
         /\ paths' = paths \cup {"queue"}
         /\ UNCHANGED <<resolveNext, waits>>
    ELSE /\ waits < MaxWaits
         /\ waits' = waits + 1
         /\ awaited' = waits + 1
         /\ resolveNext' = waits + 1
         /\ timers' = tm \cup {waits + 1}
         /\ genPos' = "waiting"
         /\ paths' = IF timedOut THEN paths \cup {"timeout"} ELSE paths
         /\ UNCHANGED <<messageQueue, delivered>>

\* setRemoteDescription has resolved: the loop starts.
EnterLoop ==
    /\ genPos = "negotiating"
    /\ LoopStep(timers, FALSE)
    /\ UNCHANGED <<arrived, notQVars>>

\* The consumer asks for the next value.
Resume ==
    /\ genPos = "yielded"
    /\ LoopStep(timers, FALSE)
    /\ UNCHANGED <<arrived, notQVars>>

\* dc.onmessage that leaves resolveNext set after using it.
OnDelta_KeepResolver ==
    /\ genPos # "closed"
    /\ Len(arrived) < MaxDeltas
    /\ arrived' = Append(arrived, Len(arrived) + 1)
    /\ IF resolveNext # 0
       THEN /\ UNCHANGED resolveNext
            /\ IF resolveNext = awaited /\ genPos = "waiting"
               THEN /\ delivered' = Append(delivered, Len(arrived) + 1)
                    /\ genPos' = "yielded"
                    /\ awaited' = 0
                    /\ paths' = paths \cup {IF "timeout" \in paths THEN "afterTimeout"
                                                                    ELSE "waiter"}
               ELSE UNCHANGED <<delivered, genPos, awaited, paths>>
            /\ UNCHANGED messageQueue
       ELSE /\ messageQueue' = Append(messageQueue, Len(arrived) + 1)
            /\ UNCHANGED <<resolveNext, delivered, genPos, awaited, paths>>
    /\ UNCHANGED <<timers, waits, notQVars>>

\* dc.onmessage for a response.audio_transcript.delta with a text.
OnDelta ==
    /\ genPos # "closed"
    /\ Len(arrived) < MaxDeltas
    /\ arrived' = Append(arrived, Len(arrived) + 1)
    /\ IF resolveNext # 0
       THEN /\ resolveNext' = 0
            /\ IF resolveNext = awaited /\ genPos = "waiting"
               THEN /\ delivered' = Append(delivered, Len(arrived) + 1)
                    /\ genPos' = "yielded"
                    /\ awaited' = 0
                    /\ paths' = paths \cup {IF "timeout" \in paths THEN "afterTimeout"
                                                                    ELSE "waiter"}
               ELSE UNCHANGED <<delivered, genPos, awaited, paths>>
            /\ UNCHANGED messageQueue
       ELSE /\ messageQueue' = Append(messageQueue, Len(arrived) + 1)
            /\ UNCHANGED <<resolveNext, delivered, genPos, awaited, paths>>
    /\ UNCHANGED <<timers, waits, notQVars>>

\* The setTimeout callback of promise w: resolve(undefined).
WaitTimeout(w) ==
    /\ w \in timers
    /\ IF awaited = w /\ genPos = "waiting"
       THEN LoopStep(timers \ {w}, TRUE)
       ELSE /\ timers' = timers \ {w}
            /\ UNCHANGED <<messageQueue, resolveNext, awaited, waits, genPos,
                           delivered, paths>>
    /\ UNCHANGED <<arrived, notQVars>>

\* The consumer stops: the finally block closes dc and pc.
Return ==
    /\ genPos = "yielded"
    /\ genPos' = "closed"
    /\ UNCHANGED <<messageQueue, resolveNext, awaited, timers, waits, arrived,
                   delivered, paths, notQVars>>

QNext ==
    \/ EnterLoop
    \/ Resume
    \/ OnDelta
    \/ \E w \in 1..MaxWaits : WaitTimeout(w)
    \/ Return

QSpecInit == AllIdle

QSpec == QSpecInit /\ [][QNext]_vars

(***************************************************************************)
(* asMessage.                                                              *)
(***************************************************************************)
Texts == UNION {[1..n -> {"a", "b"}] : n \in 0..MaxText}

StringInput(t) == [k |-> "str", s |-> t, ref |-> 0, items |-> <<>>]
TextMessage(t) == [k |-> "text", s |-> t, ref |-> 0, items |-> <<>>]
ImageMessage(t) == [k |-> "image", s |-> t, ref |-> 0, items |-> <<>>]
MessageArray(r, ms) == [k |-> "arr", s |-> <<>>, ref |-> r, items |-> ms]

Messages == {TextMessage(t) : t \in Texts} \cup {ImageMessage(<<"a">>), ImageMessage(<<"b">>)}

\* TLAiMessages: string | TLAiMessage | TLAiMessage[]
MessageInputs ==
    {StringInput(t) : t \in Texts} \cup Messages
        \cup {MessageArray(1, ms) : ms \in UNION {[1..n -> Messages] : n \in 0..MaxMessages}}

\* asMessage that returns a copy of an array.
asMessage_Copy(message, r) ==
    IF message.k = "arr" THEN MessageArray(r, message.items)
    ELSE IF message.k = "str" THEN MessageArray(r, <<TextMessage(message.s)>>)
    ELSE MessageArray(r, <<message>>)

\* asMessage(message); r is the ref of the array it creates, if it does.
asMessage(message, r) ==
    IF message.k = "arr" THEN message
    ELSE IF message.k = "str" THEN MessageArray(r, <<TextMessage(message.s)>>)
    ELSE MessageArray(r, <<message>>)

\* asMessage(x)
CallAsMessage(x) ==
    /\ amIn = NoMessage
    /\ amIn' = x
    /\ amOut' = asMessage(x, nextRef)
    /\ nextRef' = nextRef + 1
    /\ UNCHANGED <<amAgain, notAmVars>>

\* asMessage(asMessage(x))
CallAgain ==
    /\ amOut # NoMessage
    /\ amAgain = NoMessage
    /\ amAgain' = asMessage(amOut, nextRef)
    /\ nextRef' = nextRef + 1
    /\ UNCHANGED <<amIn, amOut, notAmVars>>

AmNext ==
    \/ \E x \in MessageInputs : CallAsMessage(x)
    \/ CallAgain

AmSpecInit == AllIdle

AmSpec == AmSpecInit /\ [][AmNext]_vars

(***************************************************************************)
(* handleShapeCreation: reading the event stream of the model.  A payload  *)
(* is written {a} or {b}: a complete JSON object carrying a function call  *)
(* whose arguments parse; any other text is not valid JSON.                *)
(***************************************************************************)
NL == "\n"
DATA == <<"d", "a", "t", "a", ":", " ">>
DONE == <<"[", "D", "O", "N", "E", "]">>
Payloads == {<<"{", "a", "}">>, <<"{", "b", "}">>}

Frame(payload) == DATA \o payload \o <<NL, NL>>

RECURSIVE Frames(_)
Frames(ps) == IF ps = <<>> THEN <<>> ELSE Frame(Head(ps)) \o Frames(Tail(ps))

\* Event streams: some frames, with or without the closing sentinel.
SseDocs ==
    LET bodies == UNION {[1..n -> Payloads] : n \in 1..MaxFrames}
    IN  {Frames(ps) : ps \in bodies} \cup {Frames(ps) \o Frame(DONE) : ps \in bodies}

\* text.split('\n')
RECURSIVE SplitLines(_)
SplitLines(t) ==
    IF \A i \in 1..Len(t) : t[i] # NL
    THEN <<t>>
    ELSE LET i == CHOOSE j \in 1..Len(t) : t[j] = NL /\ \A k \in 1..(j - 1) : t[k] # NL
         IN  <<SubSeq(t, 1, i - 1)>> \o SplitLines(SubSeq(t, i + 1, Len(t)))

\* line.startsWith('data: ')
StartsWithData(line) == Len(line) >= Len(DATA) /\ SubSeq(line, 1, Len(DATA)) = DATA

\* JSON.parse skips leading white space.
RECURSIVE TrimLeft(_)
TrimLeft(t) == IF t # <<>> /\ Head(t) = " " THEN TrimLeft(Tail(t)) ELSE t

\* JSON.parse(data) succeeds and the function call has arguments that parse.
HasChange(data) == TrimLeft(data) \in Payloads

\* The change built from the payload.
ChangeOf(data) == TrimLeft(data)[2]

\* The body of "for (const line of lines)": what one line sends.
LineChanges(line) ==
    IF StartsWithData(line)
    THEN LET data == SubSeq(line, 6, Len(line))
         IN  IF data = DONE THEN <<>>
             ELSE IF HasChange(data) THEN <<ChangeOf(data)>>
             ELSE <<>>
    ELSE <<>>

RECURSIVE LinesChanges(_)
LinesChanges(lines) ==
    IF lines = <<>> THEN <<>>
    ELSE LineChanges(Head(lines)) \o LinesChanges(Tail(lines))

\* What one chunk sends: decode, split into lines, handle each line.
ChunkChanges(text) == LinesChanges(SplitLines(text))

\* reader.read() delivers the next n characters.
ReadChunk(n) ==
    /\ n > 0
    /\ ssePos + n <= Len(sseDoc)
    /\ ssePos' = ssePos + n
    /\ sseOut' = sseOut \o ChunkChanges(SubSeq(sseDoc, ssePos + 1, ssePos + n))
    /\ UNCHANGED <<sseDoc, notSseVars>>

SseNext == \E n \in (1..MaxRead) \cup {Len(sseDoc) - ssePos} : ReadChunk(n)

SseSpecInit ==
    /\ RtcInit
    /\ WsInit
    /\ HbInit
    /\ ExIdle
    /\ RestInit
    /\ sseDoc \in SseDocs

SseSpec == SseSpecInit /\ [][SseNext]_vars

(***************************************************************************)
(* handleRealtimeStream: the calls of the generator, each standing at one  *)
(* of its awaits, and the module-level connection they share.              *)
(***************************************************************************)

\* The awaits of one call, in program order: getUserMedia, the session
\* fetch, the data channel's open, createOffer, setLocalDescription, the
\* answer fetch, setRemoteDescription, and the wait for a change in the loop.
Awaits == <<"mic", "session", "open", "offer", "local", "answer", "remote", "loop">>

AwaitSet == {Awaits[k] : k \in 1..Len(Awaits)}

\* The await that follows a in program order.
After(a) == Awaits[(CHOOSE k \in 1..Len(Awaits) : Awaits[k] = a) + 1]

\* setRemoteDescription of the call's peer connection has completed.
RemoteSet(i) == streamAt[i] = "loop"

\* The promise the call awaits can settle.  A data channel opens, or fails,
\* only on an established connection, that is after the answer was applied.
CanSettle(i) == streamAt[i] = "open" => RemoteSet(i)

\* cleanup(): stop the microphone, close and forget the current data channel
\* and peer connection.
RsCleanup ==
    /\ micStream' = FALSE
    /\ micEnabled' = FALSE
    /\ channel' = IF currentDataChannel # 0
                  THEN [channel EXCEPT ![currentDataChannel] = "closed"]
                  ELSE channel
    /\ currentDataChannel' = 0
    /\ peer' = IF currentPeerConnection # 0
               THEN [peer EXCEPT ![currentPeerConnection] = "closed"]
               ELSE peer
    /\ currentPeerConnection' = 0

\* handleRealtimeStream(prompt) is called and runs to its first await.
HandleRealtimeStream(i) ==
    /\ streamAt[i] = "idle"
    /\ i > 1 => streamAt[i - 1] # "idle"
    /\ IF /\ currentDataChannel # 0
          /\ channel[currentDataChannel] = "open"
          /\ currentPeerConnection # 0
       THEN /\ streamAt' = [streamAt EXCEPT ![i] = "returned"]
            /\ UNCHANGED <<currentPeerConnection, currentDataChannel, micStream,
                           micEnabled, channel, peer>>
       ELSE /\ peer' = [peer EXCEPT ![i] = "open"]
            /\ currentPeerConnection' = i
            /\ streamAt' = [streamAt EXCEPT ![i] = IF micStream THEN "session" ELSE "mic"]
            /\ UNCHANGED <<currentDataChannel, micStream, micEnabled, channel>>
    /\ UNCHANGED notRsVars

\* The promise call i awaits is fulfilled and the call runs to its next await.
Resolved(i) ==
    /\ streamAt[i] \in AwaitSet \ {"loop"}
    /\ CanSettle(i)
    /\ IF streamAt[i] = "mic"
       THEN /\ micStream' = TRUE
            /\ micEnabled' = TRUE
            /\ streamAt' = [streamAt EXCEPT ![i] = "session"]
            /\ UNCHANGED <<currentPeerConnection, currentDataChannel, channel, peer>>
       ELSE IF streamAt[i] = "session"
       THEN /\ currentDataChannel' = i
            /\ channel' = [channel EXCEPT ![i] = "connecting"]
            /\ streamAt' = [streamAt EXCEPT ![i] = "open"]
            /\ UNCHANGED <<currentPeerConnection, micStream, micEnabled, peer>>
       ELSE IF streamAt[i] = "open"
       THEN /\ channel' = [channel EXCEPT ![i] = "open"]
            /\ streamAt' = [streamAt EXCEPT ![i] = "offer"]
            /\ UNCHANGED <<currentPeerConnection, currentDataChannel, micStream,
                           micEnabled, peer>>
       ELSE IF streamAt[i] = "remote"
       THEN /\ streamAt' = [streamAt EXCEPT ![i] =
                    IF currentDataChannel # 0 /\ channel[currentDataChannel] = "open"
                    THEN "loop" ELSE "returned"]
            /\ UNCHANGED <<currentPeerConnection, currentDataChannel, micStream,
                           micEnabled, channel, peer>>
       ELSE /\ streamAt' = [streamAt EXCEPT ![i] = After(streamAt[i])]
            /\ UNCHANGED <<currentPeerConnection, currentDataChannel, micStream,
                           micEnabled, channel, peer>>
    /\ UNCHANGED notRsVars

\* The promise call i awaits is rejected (or the session has no key): the
\* catch block runs cleanup() and the call throws.
Rejected(i) ==
    /\ streamAt[i] \in AwaitSet \ {"loop"}
    /\ CanSettle(i)
    /\ RsCleanup
    /\ streamAt' = [streamAt EXCEPT ![i] = "failed"]
    /\ UNCHANGED notRsVars

\* toggleMicrophone()
ToggleMicrophone ==
    /\ currentPeerConnection # 0
    /\ micStream
    /\ micEnabled' = ~micEnabled
    /\ UNCHANGED <<currentPeerConnection, currentDataChannel, micStream, streamAt,
                   channel, peer, notRsVars>>

RsNext ==
    \/ \E i \in Streams : HandleRealtimeStream(i)
    \/ \E i \in Streams : Resolved(i)
    \/ \E i \in Streams : Rejected(i)
    \/ ToggleMicrophone

RsSpecInit == AllIdle

RsSpec == RsSpecInit /\ [][RsNext]_vars

\* Every promise that can settle does settle: the providers answer.
RsFairSpec ==
    /\ RsSpec
    /\ \A i \in Streams : WF_vars(Resolved(i) \/ Rejected(i))

(***************************************************************************)
(* createModelHandler.  A configuration is the set of its property names   *)
(* with the endpoint its generate handler posts to ("none" without one).   *)
(***************************************************************************)

\* The values of the ModelType enum.
ModelType == {"gpt-4.1-2025-04-14",
              "gemini-pro",
              "gpt-4o-2024-11-20",
              "o4-mini-2025-04-16",
              "gpt-4o-mini-realtime-preview-2024-12-17",
              "gpt-4o-realtime-preview-2024-12-17"}

Editors == {"editorA", "editorB"}

\* handleDrawingWithGPT41 posts to this endpoint.
GenerateEndpoint == "/generate"

baseConfig == {"editor", "transforms"}

\* A handler entry with generate only.
DrawingHandler == [props |-> {"generate"}, generate |-> GenerateEndpoint]

\* The handler entry of the real-time model.
RealtimeHandler ==
    [props |-> {"generate", "stream", "toggleMic", "isMicEnabled"},
     generate |-> GenerateEndpoint]

\* What spreading undefined contributes.
NoHandler == [props |-> {}, generate |-> "none"]

\* The keys of the handlers object.
HandlerKeys == {"gpt-4.1-2025-04-14",
                "gpt-4o-2024-11-20",
                "o4-mini-2025-04-16",
                "gemini-pro",
                "gpt-4o-realtime-preview-2025-06-03"}

handlers ==
    [k \in HandlerKeys |->
        IF k = "gpt-4o-realtime-preview-2025-06-03" THEN RealtimeHandler
                                                    ELSE DrawingHandler]

\* handlers[model]
HandlerOf(model) == IF model \in HandlerKeys THEN handlers[model] ELSE NoHandler

\* { ...baseConfig, ...handlers[model] }
ConfigOf(model, editor) ==
    [editor |-> editor,
     props |-> baseConfig \cup HandlerOf(model).props,
     generate |-> HandlerOf(model).generate]

\* createModelHandler(model, editor)
CreateModelHandler(model, editor) ==
    /\ Len(made) < MaxHandlers
    /\ made' = Append(made, [model |-> model, config |-> ConfigOf(model, editor)])
    /\ UNCHANGED notMhVars

MhNext == \E model \in ModelType : \E editor \in Editors : CreateModelHandler(model, editor)

MhSpecInit == AllIdle

MhSpec == MhSpecInit /\ [][MhNext]_vars

(***************************************************************************)
(* Properties of the extractor.                                            *)
(***************************************************************************)
Parts(ys) == [j \in 1..Len(ys) |-> ys[j].part]
IsFeedYield(y) == y.by = "feed"
IsFinishYield(y) == y.by = "finish"
FeedYields == SelectSeq(yielded, IsFeedYield)
FinishYields == SelectSeq(yielded, IsFinishYield)

\* json.events of the text received so far
CurrentEvents == EventsOf(accumulatedText)

\* The run of streamEvents on a stream that delivers d as one single chunk.
WholeRun(d) ==
    LET st == ProcessChunk(d, InitSt)
    IN  st.out \o FinishYield(st.pending, st.cursor)

DocAB == DocOf(<<EvA, EvB>>)
FirstPieceAB == Len(<<"{">> \o Member(EVENTS, <<"[">> \o EvA \o <<",">>))
ValueA == VObj(<<[key |-> TYPE, val |-> VStr(<<"a">>)]>>)
ValueB == VObj(<<[key |-> TYPE, val |-> VStr(<<"b">>)]>>)

\* C1: the j-th yield of a run is the element at index j-1 of the events
\* array: no index is yielded twice, before a lower one, or skipped.
C1_YieldsInIndexOrder ==
    \A j \in 1..Len(yielded) : yielded[j].i = j - 1

C1_Witness ==
    /\ pc = "done"
    /\ Len(yielded) = 2
    /\ pieces > 1

\* C2: once the stream has ended, every yielded value equals the element at
\* its index in the events array of the whole received text.
C2_YieldedAreComplete ==
    pc = "done" =>
        \A j \in 1..Len(yielded) :
            /\ IsEventArray(CurrentEvents)
            /\ yielded[j].i < Len(CurrentEvents.items)
            /\ yielded[j].part = CurrentEvents.items[yielded[j].i + 1]

\* C3: a feed never yields the element that is the last index present in
\* the events array at that moment; it yields only elements with a later
\* sibling.
C3_LastIndexIsHeld ==
    \A j \in 1..Len(yielded) : IsFeedYield(yielded[j]) => ~yielded[j].last

\* C4: on {"events":[{"type":"a"},{"type":"b"}]} cut after the first comma,
\* exactly a has been yielded after the first piece, and the second piece
\* itself does not yield b.
C4_SecondPieceHoldsB ==
    (doc = DocAB /\ firstCut = FirstPieceAB /\ pc = "feeding") =>
        /\ pieces = 1 => Parts(yielded) = <<ValueA>>
        /\ pieces = 2 => Parts(yielded) = <<ValueA>>

\* C5: when the stream ends on an events array whose elements are all valid,
\* the trailing element is the pending tentative event: it is yielded by
\* finish, once and after all the yields of the feeds, and otherwise finish
\* yields nothing.
C5_FinishYieldsPending ==
    pc = "done" =>
        IF /\ IsEventArray(CurrentEvents)
           /\ Len(CurrentEvents.items) > 0
           /\ \A j \in 1..Len(CurrentEvents.items) : SimpleEvent(CurrentEvents.items[j])
        THEN /\ Len(FinishYields) = 1
             /\ IsFinishYield(yielded[Len(yielded)])
             /\ yielded[Len(yielded)].i = Len(CurrentEvents.items) - 1
        ELSE FinishYields = <<>>

\* C6: a text fed one character at a time and the same text fed as a single
\* chunk give the same sequence of event values.
C6_ChunkBoundaryIndependence ==
    (pc = "done" /\ charwise /\ pos = Len(doc)) =>
        Parts(yielded) = Parts(WholeRun(doc))

\* C7: cursor is the number of events yielded during feeding, and never
\* exceeds the length of the events array of the current parse.
C7_CursorCountsFeedYields ==
    /\ cursor = Len(FeedYields)
    /\ IsEventArray(CurrentEvents) => cursor <= Len(CurrentEvents.items)

C7_Witness ==
    /\ cursor = 2
    /\ pc = "feeding"
    /\ pos < Len(doc)

\* C8: a run in which no parse ever had an array at json.events ends
\* normally and has yielded nothing.
C8_NoArrayNoEvents ==
    (pos > 0 /\ ~sawArray) => (yielded = <<>> /\ pc # "threw")

C8_Witness ==
    /\ pc = "done"
    /\ pos = Len(doc)
    /\ ~sawArray
    /\ doc = <<"[">> \o EvA \o <<"]">>

\* The events array of the text fed so far has an element at cursor that
\* fails validation.
StuckAt(t, c) ==
    /\ IsEventArray(EventsOf(t))
    /\ c < Len(EventsOf(t).items)
    /\ ~SimpleEvent(EventsOf(t).items[c + 1])

\* C23: a feed in whose parse the element at cursor fails validation yields
\* nothing, leaves cursor where it is and raises no error; and whatever has
\* been yielded passed validation, so nothing is yielded past an element
\* that never becomes valid.
C23_InvalidStopsFeed ==
    /\ [](\A j \in 1..Len(yielded) : SimpleEvent(yielded[j].part))
    /\ [][(pc = "feeding" /\ pc' # "done" /\ StuckAt(SubSeq(doc, 1, pos'), cursor))
            => (cursor' = cursor /\ yielded' = yielded /\ pc' = "feeding")]_vars

\* The whole text has been fed; its first element is invalid and its second
\* valid, and nothing has been yielded.
C23_Witness ==
    /\ pos = Len(doc)
    /\ pieces > 1
    /\ StuckAt(doc, 0)
    /\ Len(EventsOf(doc).items) = 2
    /\ SimpleEvent(EventsOf(doc).items[2])
    /\ cursor = 0
    /\ yielded = <<>>

\* How many consecutive elements from index c on are valid and followed by
\* a later element.
RECURSIVE ValidRun(_, _)
ValidRun(items, c) ==
    IF c + 1 < Len(items) /\ SimpleEvent(items[c + 1])
    THEN 1 + ValidRun(items, c + 1)
    ELSE 0

\* C24: a feed yields, in index order and with cursor advanced once per
\* yield, at least all the consecutive elements from cursor on that are valid
\* in its parse and followed by a later element.
C24_AllInOneFeed ==
    [][(pc = "feeding" /\ pc' # "done" /\ IsEventArray(EventsOf(SubSeq(doc, 1, pos'))))
        => LET items == EventsOf(SubSeq(doc, 1, pos')).items
               n == cursor' - cursor
           IN  /\ n >= ValidRun(items, cursor)
               /\ Len(yielded') = Len(yielded) + n
               /\ \A k \in 1..n :
                     /\ yielded'[Len(yielded) + k].i = cursor + k - 1
                     /\ yielded'[Len(yielded) + k].part = items[cursor + k]]_vars

\* A three-element text has been fed as one chunk and its first two elements
\* were yielded by that feed.
C24_Witness ==
    /\ doc \in LongDocs
    /\ pieces = 1
    /\ pos = Len(doc)
    /\ cursor >= 2
    /\ Len(yielded) >= 2
    /\ yielded[1].i = 0 /\ yielded[2].i = 1

(***************************************************************************)
(* Properties of the transport session.                                    *)
(***************************************************************************)
InFlight(c) == callPos[c] \in {"awaitSession", "awaitMic", "awaitSdp"}

\* C9: a connect issued while another connect is unresolved starts no
\* handshake: never two calls in flight, never two peer connections open,
\* never two microphone tracks live.
C9_SingleHandshake ==
    /\ Cardinality({c \in Calls : InFlight(c)}) <= 1
    /\ Cardinality({c \in Calls : pcState[c] = "open"}) <= 1
    /\ Cardinality({c \in Calls : trackState[c] = "live"}) <= 1

\* C10: right after disconnect(), whatever the state it was called in, no
\* peer connection or data channel of the session is open and no microphone
\* track is live.
C10_DisconnectReleasesAll ==
    lastOp = "disconnect" =>
        \A c \in Calls :
            /\ pcState[c] # "open"
            /\ dcState[c] # "open"
            /\ trackState[c] # "live"

\* What call c has acquired is released.
Released(c) ==
    /\ pcState[c] # "open"
    /\ dcState[c] # "open"
    /\ trackState[c] # "live"

\* C11: once a connect attempt has failed, the peer connection, data channel
\* and microphone track it had acquired are released, and right after the
\* failure the session is disconnected.
C11_FailureReleasesAll ==
    /\ \A c \in Calls : callPos[c] = "failed" => Released(c)
    /\ lastOp = "fail" => ~isConnected

\* C19: a connect call made while isConnected returns at once: it starts no
\* handshake and leaves the refs, the peer connections, the data channels,
\* the microphone tracks and isConnected as they are.
C19_ConnectWhenConnected ==
    [][\A c \in Calls :
          (isConnected /\ callPos[c] = "idle" /\ callPos'[c] # "idle") =>
              /\ callPos'[c] = "returned"
              /\ UNCHANGED <<isConnected, pcRef, dcRef, micTrack, pcState,
                             dcState, trackState>>]_vars

\* The second connect call has returned at once on the connected session.
C19_Witness ==
    \E c \in Calls :
        /\ callPos[c] = "returned"
        /\ lastOp = "connect"
        /\ isConnected
        /\ pcRef # 0 /\ pcState[pcRef] = "open"

(***************************************************************************)
(* Properties of the WebSocket client.                                     *)
(***************************************************************************)
Live == {s \in Sockets : sock[s] \in {"connecting", "open"}}

\* C12: at most one socket created by the component is connecting or open
\* at any time, whatever the order of timers, socket events and unmount.
C12_SingleLiveSocket == Cardinality(Live) <= 1

\* min(1000 * 2^k, 10000)
BackoffMs(k) == IF 1000 * 2 ^ k < 10000 THEN 1000 * 2 ^ k ELSE 10000

\* C13: a pending reconnect timer, set after the k-th consecutive closure
\* (k = 0, 1, ...) since the last open, has delay min(1000 * 2^k, 10000);
\* with no closure since the last open the attempt counter is 0.
C13_DelayDoubles ==
    /\ timerDelay # 0 => timerDelay = BackoffMs(dropsSinceOpen - 1)
    /\ dropsSinceOpen = 0 => reconnectAttempts = 0

\* C14: the attempt counter never exceeds the maximum; a reconnect timer is
\* pending only while the counter is below it; and once the policy has given
\* up (an abnormal closure with the counter at the maximum), the terminal
\* error is shown until a server message replaces it, and no timer is
\* pending, so that the policy makes no further attempt.
C14_BoundedAttempts ==
    /\ reconnectAttempts <= 5
    /\ timerDelay # 0 => reconnectAttempts < 5
    /\ gaveUp => /\ timerDelay = 0
                 /\ reconnectAttempts = 5
                 /\ errorMsg \in {"terminal", "server", "processing"}

C14_Witness == gaveUp /\ mounted /\ errorMsg = "terminal"

\* C15: after the effect cleanup has closed the socket and until the effect
\* runs again, no reconnect timer is pending and no socket is created.
C15_NoReconnectAfterUnmount == ~mounted => (timerDelay = 0 /\ ~madeUnmounted)

\* C16: a pending reconnect timer was set by the closure of a socket that
\* had opened; an attempt that failed before opening is not retried.
C16_OnlyAfterOpen == timerDelay # 0 => timerAfterOpen

C27_StatusMatchesSocket ==
    mounted =>
        ((connectionStatus = "connected") <=> (wsRef # 0 /\ sock[wsRef] = "open"))

\* C28: a prompt shown as being generated on a connected session is one
\* the open socket ws.current carries, so that its 'end' or 'error' can still
\* arrive: a closed or replaced connection does not leave the input disabled
\* once the session is connected again.
C28_GeneratingEnds ==
    (/\ mounted
     /\ isGenerating
     /\ connectionStatus = "connected"
     /\ wsRef # 0
     /\ sock[wsRef] = "open")
        => promptSock = wsRef

(***************************************************************************)
(* Properties of the server heartbeat.                                     *)
(***************************************************************************)

C29_ClientsAndShutdown ==
    /\ [](clients = {c \in Clients : conn[c] = "open" /\ c \notin errored})
    /\ [][down => /\ ticks' = ticks
                  /\ \A c \in Clients :
                        /\ pingOut'[c] => pingOut[c]
                        /\ conn'[c] = "terminated" => conn[c] = "terminated"]_vars

\* After shutdown, with a ping still unanswered, one client has errored and
\* another was terminated before.
C29_Witness ==
    /\ down
    /\ errored # {}
    /\ \E c \in Clients : conn[c] = "terminated"
    /\ \E c \in Clients : pingOut[c]

(***************************************************************************)
(* Properties of the message queue.                                        *)
(***************************************************************************)

\* C21: until the consumer stops, the deltas yielded followed by the deltas
\* still queued are the deltas received, in arrival order: none is lost,
\* duplicated or reordered; afterwards the yielded ones are a prefix.
C21_DeltasInOrder ==
    /\ genPos # "closed" => delivered \o messageQueue = arrived
    /\ Len(delivered) <= Len(arrived)
    /\ delivered = SubSeq(arrived, 1, Len(delivered))

\* Three deltas have been yielded: one handed to the waiting loop, one taken
\* from the queue, one handed over after an earlier wait had timed out.
C21_Witness ==
    /\ Len(delivered) = 3
    /\ paths = {"waiter", "queue", "timeout", "afterTimeout"}

(***************************************************************************)
(* Properties of asMessage.                                                *)
(***************************************************************************)

\* C22: asMessage gives a one-element array holding the text message for a
\* string, a one-element array holding the message for a message, and the
\* very same array for an array; applying it to its result gives that
\* result again.
C22_AsMessage ==
    /\ amOut # NoMessage =>
          /\ amOut.k = "arr"
          /\ amIn.k = "str" =>
                amOut.items = <<[k |-> "text", s |-> amIn.s, ref |-> 0, items |-> <<>>]>>
          /\ amIn.k \in {"text", "image"} => amOut.items = <<amIn>>
          /\ amIn.k = "arr" => amOut = amIn
    /\ amAgain # NoMessage => amAgain = amOut

\* asMessage has been applied twice, starting from an array of two messages.
C22_Witness ==
    /\ amAgain # NoMessage
    /\ amIn.k = "arr"
    /\ Len(amIn.items) = 2

(***************************************************************************)
(* Properties of the event stream reader.                                  *)
(***************************************************************************)

\* C25: once the whole stream has been read, in whatever chunks, the changes
\* sent are those of its frames, one per data frame and in order, as when
\* the stream comes as one chunk; the sentinel sends none.
C25_ChunkBoundaries ==
    ssePos = Len(sseDoc) => sseOut = ChunkChanges(sseDoc)

(***************************************************************************)
(* Properties of handleRealtimeStream.                                     *)
(***************************************************************************)

\* C26: a call whose microphone and session requests succeeded, and which
\* therefore waits for its data channel to open, eventually reaches the
\* loop over the open channel (or throws, when a provider failed).
C26_HandshakeCompletes ==
    \A i \in Streams :
        (streamAt[i] = "open") ~> (streamAt[i] \in {"loop", "failed"})

(***************************************************************************)
(* Properties of createModelHandler.                                       *)
(***************************************************************************)

\* C30: every configuration returned for a value of ModelType has a generate
\* handler that posts to /generate, and every model with a stream handler is
\* a value of ModelType (the handlers object is built by each call).
C30_EveryModelGenerates ==
    /\ \A k \in 1..Len(made) :
            /\ "generate" \in made[k].config.props
            /\ made[k].config.generate = GenerateEndpoint
    /\ made # <<>> =>
            \A m \in HandlerKeys : "stream" \in handlers[m].props => m \in ModelType

====
